---- MODULE Spec2Model ----
(***************************************************************************)
(* State-machine model of heat_coil.c: a Linux kernel module that drives a *)
(* heating coil on HEAT_PIN and samples a MAX6675 over three bit-banged    *)
(* GPIO lines from a watchdog kthread.                                     *)
(*                                                                         *)
(* Concurrency granularity: one action per access to a shared variable     *)
(* (heating, temp, a GPIO line) or per call into the kernel.  The module   *)
(* takes no lock anywhere, so every such access is an interleaving point   *)
(* between the watchdog kthread, the client contexts that run the file     *)
(* operations, and the insmod/rmmod context.                               *)
(***************************************************************************)
EXTENDS Integers, Sequences, FiniteSets, TLC

(* ------------------------------ bounds --------------------------------- *)

\* number of client contexts, each with one file handle of its own
NumClients == 2

\* number of those clients that call read(2)
NumReaders == 1

\* number of calls into the kernel that fail while the module loads
MaxLoadFailures == 1

\* the len argument of every write(2): long enough for a copy to fault
\* after its first byte
WriteLen == 2

(* -------------------------- program constants -------------------------- *)

TEMP_MINOR == 0
STATUS_MINOR == 1
TEMP_LIMIT == 2151
TEMP_LIMIT_2 == 2662
EFAULT == 14
\* number of iterations of the clocking loop of temp_data (i = 0 .. 15)
FRAME_BITS == 16

CS_PIN == "CS"
CLK_PIN == "CLK"
DATA_PIN == "DATA"
HEAT_PIN == "HEAT"
Pins == {CS_PIN, CLK_PIN, DATA_PIN, HEAT_PIN}

Clients == 1 .. NumClients
Readers == 1 .. NumReaders
Minors == {TEMP_MINOR, STATUS_MINOR}

(* ------------------------- environment inputs -------------------------- *)

\* raw 16-bit frames the MAX6675 may present: 400, 2200 and 2700 ticks in
\* bits 14..3 (0x0C80 is the cold-start frame; 2200 lies between the two
\* limits, 2700 above both)
Frames == {3200, 17600, 21600}

\* every frame a 16-bit shift register can hold
AllFrames == 0 .. 65535

\* first byte of the buffer a client passes to write(2)
Bytes == {"1", "0"}

\* outcomes of a call into the kernel that can fail (TRUE: it succeeds):
\* what a faulty environment may produce, and what a nominal one does
Faulty == BOOLEAN
Nominal == {TRUE}

\* what an uninitialised byte of kernel stack may hold
Garbage == {"NUL", "x"}

(* ------------------------------- state --------------------------------- *)

VARIABLES
    lpc,        \* position of the insmod/rmmod context in coil_init/coil_exit
    major,      \* static int major: 0 unset, 1 a positive major, -1 an errno
    registered, \* the character-device major is registered: opens can arrive
    status_reg, \* what the second register_chrdev returned (the code drops it)
    gpio_own,   \* per pin: "free", "held", "busy" (request failed), "freed"
    gpio_dir,   \* per pin: "none", "out", "in"
    gpio_val,   \* per pin: level driven on the line
    heating,    \* static int heating
    temp,       \* static u16 temp
    wpc,        \* position of the watchdog kthread in watchdog_fn/temp_data
    should_stop,\* kthread_should_stop() of the watchdog
    sigkill,    \* signal_pending(watchdog_thread)
    sensor,     \* frame latched by the MAX6675 when CS fell
    data,       \* temp_data: u16 data
    i,          \* temp_data: int i
    cpc,        \* per client: position in the file operation it runs
    minor,      \* per client: iminor of the handle it holds
    fault,      \* per client: the user-buffer copy of its operation faulted
    buffer,     \* per client: the bytes the last read copied to the user buffer
    ret,        \* per client: what the last file operation returned
    exit_heating \* history: the value of heating when coil_exit was entered

vars == <<lpc, major, registered, status_reg, gpio_own, gpio_dir, gpio_val,
          heating, temp, wpc, should_stop, sigkill, sensor, data, i,
          cpc, minor, fault, buffer, ret, exit_heating>>

lifecycle == <<lpc, major, registered, status_reg, exit_heating>>
gpio == <<gpio_own, gpio_dir, gpio_val>>
coil == <<heating, temp>>
watchdog == <<wpc, should_stop, sigkill, sensor, data, i>>
clients == <<cpc, minor, fault, buffer, ret>>

(* ------------------------------ helpers -------------------------------- *)

\* gpio_set_value(pin, v)
gpio_set_value(pin, v) == gpio_val' = [gpio_val EXCEPT ![pin] = v]

\* bit k of a 16-bit word
Bit(w, k) == (w \div (2 ^ k)) % 2

\* a sensor that shifts its frame out least significant bit first
gpio_get_data_LsbFirst == Bit(sensor, i)

\* gpio_get_value(DATA_PIN): the MAX6675 shifts its latched frame out MSB
\* first, one bit per clock
gpio_get_data == Bit(sensor, (FRAME_BITS - 1) - i)

\* return ((data >> 3) & 0xFFF)
Ticks(d) == (d \div 8) % 4096

\* the calls of coil_init that have failed so far, and the outcomes the next
\* one may have in environment env
LoadFailures ==
    Cardinality({p \in Pins : gpio_own[p] = "busy"})
    + (IF status_reg = "busy" THEN 1 ELSE 0)
    + (IF major < 0 THEN 1 ELSE 0)
    + (IF wpc = "err_ptr" THEN 1 ELSE 0)

Outcomes(env) == IF LoadFailures < MaxLoadFailures THEN env ELSE {TRUE}

Init ==
    /\ lpc = "init_register_temp"
    /\ major = 0
    /\ registered = FALSE
    /\ status_reg = "none"
    /\ gpio_own = [p \in Pins |-> "free"]
    /\ gpio_dir = [p \in Pins |-> "none"]
    /\ gpio_val = [p \in Pins |-> 0]
    /\ heating = 0
    /\ temp = 0
    /\ wpc = "none"
    /\ should_stop = FALSE
    /\ sigkill = FALSE
    /\ sensor = 0
    /\ data = 0
    /\ i = 0
    /\ cpc = [c \in Clients |-> "closed"]
    /\ minor = [c \in Clients |-> TEMP_MINOR]
    /\ fault = [c \in Clients |-> FALSE]
    /\ buffer = [c \in Clients |-> <<>>]
    /\ ret = [c \in Clients |-> 0]
    /\ exit_heating = 0

(* ---------------------------- coil_init -------------------------------- *)

\* major = register_chrdev(0, TEMP_DEVICE_NAME, &fops): a positive major or
\* a negative errno.  The registration covers every minor of the major, so
\* both endpoints can be opened from here on.
InitRegisterTemp(env) ==
    /\ lpc = "init_register_temp"
    /\ \E ok \in Outcomes(env) :
        /\ major' = IF ok THEN 1 ELSE -1
        /\ registered' = ok
    /\ lpc' = "init_register_status"
    /\ UNCHANGED <<status_reg, exit_heating, gpio, coil, watchdog, clients>>

\* if (major > 0) register_chrdev(major, STATUS_DEVICE_NAME, &fops);
\* the return value is not stored or tested
InitRegisterStatus(env) ==
    /\ lpc = "init_register_status"
    /\ IF major > 0
       THEN \E ok \in Outcomes(env) : status_reg' = IF ok THEN "ok" ELSE "busy"
       ELSE status_reg' = status_reg
    /\ lpc' = "init_check_major"
    /\ UNCHANGED <<major, registered, exit_heating, gpio, coil, watchdog, clients>>

\* if (major < 0) { printk; return major; }
InitCheckMajor ==
    /\ lpc = "init_check_major"
    /\ lpc' = IF major < 0 THEN "init_failed" ELSE "request_CS"
    /\ UNCHANGED <<major, registered, status_reg, exit_heating, gpio, coil, watchdog, clients>>

(* ---------------------------- gpio_init -------------------------------- *)

\* gpio_request(pin, label): 0 or -EBUSY; gpio_init drops the result
gpio_request(pin, next, env) ==
    /\ lpc = "request_" \o pin
    /\ \E ok \in Outcomes(env) :
        gpio_own' = [gpio_own EXCEPT ![pin] = IF ok THEN "held" ELSE "busy"]
    /\ lpc' = next
    /\ UNCHANGED <<major, registered, status_reg, exit_heating, gpio_dir, gpio_val,
                   coil, watchdog, clients>>

\* gpio_direction_output(pin, v)
gpio_direction_output(pin, v, next) ==
    /\ lpc = "direction_" \o pin
    /\ gpio_dir' = [gpio_dir EXCEPT ![pin] = "out"]
    /\ gpio_set_value(pin, v)
    /\ lpc' = next
    /\ UNCHANGED <<major, registered, status_reg, exit_heating, gpio_own,
                   coil, watchdog, clients>>

\* gpio_direction_input(DATA_PIN), then gpio_init returns
gpio_direction_input ==
    /\ lpc = "direction_DATA"
    /\ gpio_dir' = [gpio_dir EXCEPT ![DATA_PIN] = "in"]
    /\ lpc' = "init_kthread_create"
    /\ UNCHANGED <<major, registered, status_reg, exit_heating, gpio_own, gpio_val,
                   coil, watchdog, clients>>

gpio_init(env) ==
    \/ gpio_request(CS_PIN, "request_CLK", env)
    \/ gpio_request(CLK_PIN, "request_DATA", env)
    \/ gpio_request(DATA_PIN, "request_HEAT", env)
    \/ gpio_request(HEAT_PIN, "direction_HEAT", env)
    \/ gpio_direction_output(HEAT_PIN, 0, "direction_CS")
    \/ gpio_direction_output(CS_PIN, 1, "direction_CLK")
    \/ gpio_direction_output(CLK_PIN, 0, "direction_DATA")
    \/ gpio_direction_input

\* watchdog_thread = kthread_create(watchdog_fn, NULL, threadName):
\* a task, or an ERR_PTR (which is not NULL)
InitKthreadCreate(env) ==
    /\ lpc = "init_kthread_create"
    /\ \E ok \in Outcomes(env) : wpc' = IF ok THEN "created" ELSE "err_ptr"
    /\ lpc' = "init_wake"
    /\ UNCHANGED <<major, registered, status_reg, exit_heating, gpio, coil,
                   should_stop, sigkill, sensor, data, i, clients>>

\* if (watchdog_thread) wake_up_process(watchdog_thread); printk; return 0.
\* An ERR_PTR passes the test and is dereferenced by wake_up_process: the
\* insmod context dies in an oops, with the major still registered.
InitWake ==
    /\ lpc = "init_wake"
    /\ IF wpc = "created"
       THEN wpc' = "loop" /\ lpc' = "loaded"
       ELSE wpc' = wpc /\ lpc' = "init_oops"
    /\ UNCHANGED <<major, registered, status_reg, exit_heating, gpio, coil,
                   should_stop, sigkill, sensor, data, i, clients>>

coil_init(env) ==
    \/ InitRegisterTemp(env)
    \/ InitRegisterStatus(env)
    \/ InitCheckMajor
    \/ gpio_init(env)
    \/ InitKthreadCreate(env)
    \/ InitWake

(* ---------------------------- the actuator ----------------------------- *)

\* a guard that tests the wrong limit
turn_on_refused_WrongLimit == TEMP_LIMIT_2 < temp

\* turn_heating_coil_on: if (TEMP_LIMIT < temp) return;
turn_on_refused == TEMP_LIMIT < temp

\* turn_heating_coil_on: heating = 1;
turn_on_store == heating' = 1

\* turn_heating_coil_on: gpio_set_value(HEAT_PIN, heating).  heating is a
\* plain int that other contexts write without synchronisation: the argument
\* is the 1 just stored (kept in a register) or whatever a reload finds.
turn_on_gpio == \E v \in {1, heating} : gpio_set_value(HEAT_PIN, v)

\* turn_heating_coil_off: gpio_set_value(HEAT_PIN, 0);
turn_off_gpio == gpio_set_value(HEAT_PIN, 0)

\* turn_heating_coil_off: heating = 0;
turn_off_store == heating' = 0

(* ---------------------------- watchdog_fn ------------------------------ *)

\* a loop head that does not test kthread_should_stop()
WdLoop_NoStopTest ==
    /\ wpc = "loop"
    /\ wpc' = "frame_cs"
    /\ UNCHANGED <<lifecycle, gpio, coil, should_stop, sigkill, sensor, data, i,
                   clients>>

\* while (!kthread_should_stop()) { j1 = jiffies + 1*HZ; ...
WdLoop ==
    /\ wpc = "loop"
    /\ wpc' = IF should_stop THEN "exited" ELSE "frame_cs"
    /\ UNCHANGED <<lifecycle, gpio, coil, should_stop, sigkill, sensor, data, i,
                   clients>>

\* temp_data: data = 0; i = 0; gpio_set_value(CS_PIN, 0).  The falling edge
\* of CS stops the conversion and latches the frame the sensor shifts out.
FrameStartFrom(frames) ==
    /\ wpc = "frame_cs"
    /\ gpio_set_value(CS_PIN, 0)
    /\ \E f \in frames : sensor' = f
    /\ data' = 0
    /\ i' = 0
    /\ wpc' = "clk_high"
    /\ UNCHANGED <<lifecycle, gpio_own, gpio_dir, coil, should_stop, sigkill,
                   clients>>

FrameStart == FrameStartFrom(Frames)

\* for (i = 0; i <= 15; i++) { gpio_set_value(CLK_PIN, 1); usleep_range
\* ... } gpio_set_value(CS_PIN, 1)
FrameClkHigh ==
    /\ wpc = "clk_high"
    /\ IF i <= FRAME_BITS - 1
       THEN gpio_set_value(CLK_PIN, 1) /\ wpc' = "sample"
       ELSE gpio_set_value(CS_PIN, 1) /\ wpc' = "publish"
    /\ UNCHANGED <<lifecycle, gpio_own, gpio_dir, coil, should_stop, sigkill,
                   sensor, data, i, clients>>

\* data = data << 1; if (gpio_get_value(DATA_PIN) == 1) data = data | 1;
FrameSample ==
    /\ wpc = "sample"
    /\ data' = ((data * 2) % 65536) + (IF gpio_get_data = 1 THEN 1 ELSE 0)
    /\ wpc' = "clk_low"
    /\ UNCHANGED <<lifecycle, gpio, coil, should_stop, sigkill, sensor, i,
                   clients>>

\* an iteration that leaves the clock high
FrameClkLow_ClockStaysHigh ==
    /\ wpc = "clk_low"
    /\ i' = i + 1
    /\ wpc' = "clk_high"
    /\ UNCHANGED <<lifecycle, gpio, coil, should_stop, sigkill,
                   sensor, data, clients>>

\* gpio_set_value(CLK_PIN, 0); usleep_range; i++
FrameClkLow ==
    /\ wpc = "clk_low"
    /\ gpio_set_value(CLK_PIN, 0)
    /\ i' = i + 1
    /\ wpc' = "clk_high"
    /\ UNCHANGED <<lifecycle, gpio_own, gpio_dir, coil, should_stop, sigkill,
                   sensor, data, clients>>

temp_data == FrameStart \/ FrameClkHigh \/ FrameSample \/ FrameClkLow

\* temp = temp_data(): the store of the returned value; the locals of
\* temp_data are dead, and the sensor converts anew once CS is high
WdPublish ==
    /\ wpc = "publish"
    /\ temp' = Ticks(data)
    /\ data' = 0
    /\ i' = 0
    /\ sensor' = 0
    /\ wpc' = "check"
    /\ UNCHANGED <<lifecycle, gpio, heating, should_stop, sigkill, clients>>

\* if ((TEMP_LIMIT_2 < temp) && heating)
WdTrip == (TEMP_LIMIT_2 < temp) /\ heating # 0

WdCheck ==
    /\ wpc = "check"
    /\ wpc' = IF WdTrip THEN "off_gpio" ELSE "wait"
    /\ UNCHANGED <<lifecycle, gpio, coil, should_stop, sigkill, sensor, data, i,
                   clients>>

\* printk; turn_heating_coil_off(): first statement
WdOffGpio ==
    /\ wpc = "off_gpio"
    /\ turn_off_gpio
    /\ wpc' = "off_store"
    /\ UNCHANGED <<lifecycle, gpio_own, gpio_dir, coil, should_stop, sigkill,
                   sensor, data, i, clients>>

\* turn_heating_coil_off(): second statement, then the wait loop
WdOffStore ==
    /\ wpc = "off_store"
    /\ turn_off_store
    /\ wpc' = "wait"
    /\ UNCHANGED <<lifecycle, gpio, temp, should_stop, sigkill, sensor, data, i,
                   clients>>

\* while (time_before(jiffies, j1)): the deadline has passed
WdWaitExpired ==
    /\ wpc = "wait"
    /\ wpc' = "signal"
    /\ UNCHANGED <<lifecycle, gpio, coil, should_stop, sigkill, sensor, data, i,
                   clients>>

\* inside the wait loop: if (kthread_should_stop()) return 0;
WdWaitStop ==
    /\ wpc = "wait"
    /\ should_stop
    /\ wpc' = "exited"
    /\ UNCHANGED <<lifecycle, gpio, coil, should_stop, sigkill, sensor, data, i,
                   clients>>

\* inside the wait loop: else schedule();
WdSchedule ==
    /\ wpc = "wait"
    /\ ~should_stop
    /\ UNCHANGED vars

\* if (signal_pending(watchdog_thread)) break; ... return 0
WdSignal ==
    /\ wpc = "signal"
    /\ wpc' = IF sigkill THEN "exited" ELSE "loop"
    /\ UNCHANGED <<lifecycle, gpio, coil, should_stop, sigkill, sensor, data, i,
                   clients>>

watchdog_fn ==
    \/ WdLoop
    \/ temp_data
    \/ WdPublish
    \/ WdCheck
    \/ WdOffGpio
    \/ WdOffStore
    \/ WdWaitExpired
    \/ WdWaitStop
    \/ WdSchedule
    \/ WdSignal

\* allow_signal(SIGKILL): a SIGKILL sent to the running kthread stays pending
SendSigkill ==
    /\ wpc \notin {"none", "created", "err_ptr", "exited"}
    /\ ~sigkill
    /\ sigkill' = TRUE
    /\ UNCHANGED <<lifecycle, gpio, coil, wpc, should_stop, sensor, data, i,
                   clients>>

(* -------------------------- file operations ---------------------------- *)

\* The module text is mapped: file operations of open handles can run.
\* fops sets no .owner, so an open handle does not pin the module and
\* rmmod can run while handles are open or operations are in flight.  Once
\* coil_exit has returned the module's text and variables are freed, and no
\* step of the module is modelled any more.
ModuleText == lpc \notin {"init_failed", "unloaded"}

\* dev_open: both cases of the switch are empty; return 0
dev_open(c) ==
    /\ cpc[c] = "closed"
    /\ registered
    /\ ModuleText
    /\ \E m \in Minors : minor' = [minor EXCEPT ![c] = m]
    /\ cpc' = [cpc EXCEPT ![c] = "idle"]
    /\ UNCHANGED <<lifecycle, gpio, coil, watchdog, fault, buffer, ret>>

\* user_input[0] after copy_from_user(user_input, buffer, len), whose result
\* dev_write drops.  A faulting copy zero-fills what it could not copy: the
\* first byte is the client's when the fault came after it (len > 1), else 0.
CopiedByte(b, ok) ==
    IF ok THEN {b} ELSE IF WriteLen > 1 THEN {b, "NUL"} ELSE {"NUL"}

\* dev_write: the switch on minor and the test user_input[0] == '1'
WriteDispatch_AnyMinor(m, byte) ==
    IF byte = "1" THEN "on_guard" ELSE "write_off_gpio"

WriteDispatch(m, byte) ==
    IF m = STATUS_MINOR
    THEN IF byte = "1" THEN "on_guard" ELSE "write_off_gpio"
    ELSE "idle"

\* kfree(user_input); return len;
WriteReturn(c) == ret' = [ret EXCEPT ![c] = WriteLen]

\* dev_write up to the call of the actuator: kmalloc, copy_from_user and the
\* dispatch; on TEMP_MINOR the whole write
DevWriteCopy(c, env) ==
    /\ cpc[c] = "idle"
    /\ ModuleText
    /\ \E b \in Bytes, ok \in env :
        \E u \in CopiedByte(b, ok) :
            /\ fault' = [fault EXCEPT ![c] = ~ok]
            /\ cpc' = [cpc EXCEPT ![c] = WriteDispatch(minor[c], u)]
    /\ IF minor[c] = STATUS_MINOR
       THEN ret' = [ret EXCEPT ![c] = 0]
       ELSE WriteReturn(c)
    /\ buffer' = [buffer EXCEPT ![c] = <<>>]
    /\ UNCHANGED <<lifecycle, gpio, coil, watchdog, minor>>

\* turn_heating_coil_on called from dev_write: the guard; a refusal returns
\* to dev_write, which returns len
DevWriteOnGuard(c) ==
    /\ cpc[c] = "on_guard"
    /\ ModuleText
    /\ IF turn_on_refused
       THEN cpc' = [cpc EXCEPT ![c] = "idle"] /\ WriteReturn(c)
       ELSE cpc' = [cpc EXCEPT ![c] = "on_store"] /\ ret' = ret
    /\ UNCHANGED <<lifecycle, gpio, coil, watchdog, minor, fault, buffer>>

DevWriteOnStore(c) ==
    /\ cpc[c] = "on_store"
    /\ ModuleText
    /\ turn_on_store
    /\ cpc' = [cpc EXCEPT ![c] = "on_gpio"]
    /\ UNCHANGED <<lifecycle, gpio, temp, watchdog, minor, fault, buffer, ret>>

DevWriteOnGpio(c) ==
    /\ cpc[c] = "on_gpio"
    /\ ModuleText
    /\ turn_on_gpio
    /\ cpc' = [cpc EXCEPT ![c] = "idle"]
    /\ WriteReturn(c)
    /\ UNCHANGED <<lifecycle, gpio_own, gpio_dir, coil, watchdog, minor,
                   fault, buffer>>

\* turn_heating_coil_off called from dev_write
DevWriteOffGpio(c) ==
    /\ cpc[c] = "write_off_gpio"
    /\ ModuleText
    /\ turn_off_gpio
    /\ cpc' = [cpc EXCEPT ![c] = "write_off_store"]
    /\ UNCHANGED <<lifecycle, gpio_own, gpio_dir, coil, watchdog, minor,
                   fault, buffer, ret>>

DevWriteOffStore(c) ==
    /\ cpc[c] = "write_off_store"
    /\ ModuleText
    /\ turn_off_store
    /\ cpc' = [cpc EXCEPT ![c] = "idle"]
    /\ WriteReturn(c)
    /\ UNCHANGED <<lifecycle, gpio, temp, watchdog, minor, fault, buffer>>

dev_write(c, env) ==
    \/ DevWriteCopy(c, env)
    \/ DevWriteOnGuard(c)
    \/ DevWriteOnStore(c)
    \/ DevWriteOnGpio(c)
    \/ DevWriteOffGpio(c)
    \/ DevWriteOffStore(c)

\* the character sprintf prints for the digit d
Digit(d) == <<"0", "1", "2", "3", "4", "5", "6", "7", "8", "9">>[d + 1]

\* the decimal digits of n, as sprintf's %hu and %d print them
RECURSIVE Decimal(_)
Decimal(n) ==
    IF n < 10 THEN <<Digit(n)>> ELSE Decimal(n \div 10) \o <<Digit(n % 10)>>

\* sprintf(s, "%hu\n", n) / sprintf(s, "%d\n", n): digits, newline, NUL
Sprintf(n) == Decimal(n) \o <<"\n", "NUL">>

\* the first k bytes of a char[k] after sprintf wrote text at its start:
\* bytes the text does not reach keep what the stack held
StackBytes(text, k) ==
    IF Len(text) >= k
    THEN {SubSeq(text, 1, k)}
    ELSE {text \o pad : pad \in [1 .. (k - Len(text)) -> Garbage]}

\* dev_read, case TEMP_MINOR: sprintf(temp_string, "%hu\n", temp);
\* ret = copy_to_user(buffer, temp_string, 5); return ret == 0 ? 5 : -EFAULT
\* case STATUS_MINOR: the same with heating, "%d\n" and 2 bytes
ReadValue(m) == IF m = TEMP_MINOR THEN temp ELSE heating
ReadCount(m) == IF m = TEMP_MINOR THEN 5 ELSE 2

\* sprintf is unbounded: text longer than the char[k] it is printed into
\* runs past the end of the array ("1\n" and its NUL into status_string[2];
\* four digits, newline and NUL into temp_string[5])
Overflows(text, k) == Len(text) > k

\* the read returns: the first ReadCount bytes of the array reach the user
\* buffer, or the copy faults
DevReadReturn(c, env) ==
    /\ cpc[c] = "idle"
    /\ ModuleText
    /\ \E ok \in env :
        /\ fault' = [fault EXCEPT ![c] = ~ok]
        /\ ret' = [ret EXCEPT ![c] = IF ok THEN ReadCount(minor[c])
                                     ELSE 0 - EFAULT]
        /\ IF ok
           THEN \E bytes \in StackBytes(Sprintf(ReadValue(minor[c])),
                                        ReadCount(minor[c])) :
                    buffer' = [buffer EXCEPT ![c] = bytes]
           ELSE buffer' = [buffer EXCEPT ![c] = <<>>]
    /\ UNCHANGED <<lifecycle, gpio, coil, watchdog, cpc, minor>>

\* Writing past the end of a local array is undefined.  What lies behind
\* the array is the build's choice: padding or a dead local (the read
\* returns as above), or the frame's stack-protector canary, and then
\* dev_read ends in __stack_chk_fail and never returns to its caller.  The
\* other contexts keep running in the model: the behaviours of a machine
\* halted by the panic are prefixes of these.
DevReadSmash(c) ==
    /\ cpc[c] = "idle"
    /\ ModuleText
    /\ Overflows(Sprintf(ReadValue(minor[c])), ReadCount(minor[c]))
    /\ cpc' = [cpc EXCEPT ![c] = "panic"]
    /\ fault' = [fault EXCEPT ![c] = FALSE]
    /\ ret' = [ret EXCEPT ![c] = 0]
    /\ buffer' = [buffer EXCEPT ![c] = <<>>]
    /\ UNCHANGED <<lifecycle, gpio, coil, watchdog, minor>>

dev_read(c, env) ==
    \/ DevReadReturn(c, env)
    \/ DevReadSmash(c)

\* a release that tests the wrong minor
ReleaseDisengages_WrongMinor(m) == m = TEMP_MINOR

\* dev_release: if (minor == STATUS_MINOR) turn_heating_coil_off();
ReleaseDisengages(m) == m = STATUS_MINOR

DevReleaseEnter(c) ==
    /\ cpc[c] = "idle"
    /\ ModuleText
    /\ cpc' = [cpc EXCEPT ![c] = IF ReleaseDisengages(minor[c])
                                 THEN "release_off_gpio" ELSE "closed"]
    /\ fault' = [fault EXCEPT ![c] = FALSE]
    /\ ret' = [ret EXCEPT ![c] = 0]
    /\ buffer' = [buffer EXCEPT ![c] = <<>>]
    /\ UNCHANGED <<lifecycle, gpio, coil, watchdog, minor>>

DevReleaseOffGpio(c) ==
    /\ cpc[c] = "release_off_gpio"
    /\ ModuleText
    /\ turn_off_gpio
    /\ cpc' = [cpc EXCEPT ![c] = "release_off_store"]
    /\ UNCHANGED <<lifecycle, gpio_own, gpio_dir, coil, watchdog, minor,
                   fault, buffer, ret>>

\* heating = 0; return 0: the handle is gone
DevReleaseOffStore(c) ==
    /\ cpc[c] = "release_off_store"
    /\ ModuleText
    /\ turn_off_store
    /\ cpc' = [cpc EXCEPT ![c] = "closed"]
    /\ UNCHANGED <<lifecycle, gpio, temp, watchdog, minor, fault, buffer, ret>>

dev_release(c) ==
    \/ DevReleaseEnter(c)
    \/ DevReleaseOffGpio(c)
    \/ DevReleaseOffStore(c)

(* ----------------------------- coil_exit ------------------------------- *)

\* unregister_chrdev(major, TEMP_DEVICE_NAME): no open can arrive any more;
\* unregister_chrdev(major, STATUS_DEVICE_NAME): the major is gone already
ExitUnregister ==
    /\ lpc = "loaded"
    /\ registered' = FALSE
    /\ exit_heating' = heating
    /\ lpc' = "exit_kthread_stop"
    /\ UNCHANGED <<major, status_reg, gpio, coil, watchdog, clients>>

\* kthread_stop(watchdog_thread), first half: set the stop flag and wake the
\* thread.  The module holds no reference on the task: when watchdog_fn has
\* already returned (a pending signal), the task may be freed and
\* kthread_stop reads freed memory; it goes on as if the thread were there
\* or the rmmod context dies in an oops.
ExitKthreadStop ==
    /\ lpc = "exit_kthread_stop"
    /\ IF wpc = "exited"
       THEN /\ \E oops \in BOOLEAN :
                lpc' = IF oops THEN "exit_oops" ELSE "exit_kthread_join"
            /\ should_stop' = should_stop
       ELSE /\ should_stop' = TRUE
            /\ lpc' = "exit_kthread_join"
    /\ UNCHANGED <<major, registered, status_reg, exit_heating, gpio, coil, wpc, sigkill,
                   sensor, data, i, clients>>

\* a stop that does not wait for the thread
KthreadExited_NoWait == TRUE

\* kthread_stop, second half: wait_for_completion(&kthread->exited)
KthreadExited == wpc = "exited"

ExitKthreadJoin ==
    /\ lpc = "exit_kthread_join"
    /\ KthreadExited
    /\ lpc' = "free_CS"
    /\ UNCHANGED <<major, registered, status_reg, exit_heating, gpio, coil, watchdog, clients>>

\* gpio_free(pin)
gpio_free(pin, next) ==
    /\ lpc = "free_" \o pin
    /\ gpio_own' = [gpio_own EXCEPT ![pin] = "freed"]
    /\ lpc' = next
    /\ UNCHANGED <<major, registered, status_reg, exit_heating, gpio_dir, gpio_val,
                   coil, watchdog, clients>>

\* gpio_exit, then printk and the return of coil_exit: the module is gone
gpio_exit ==
    \/ gpio_free(CS_PIN, "free_CLK")
    \/ gpio_free(CLK_PIN, "free_DATA")
    \/ gpio_free(DATA_PIN, "free_HEAT")
    \/ gpio_free(HEAT_PIN, "unloaded")

coil_exit ==
    \/ ExitUnregister
    \/ ExitKthreadStop
    \/ ExitKthreadJoin
    \/ gpio_exit

(* --------------------------- specifications ---------------------------- *)

\* Spec: NumClients clients against the watchdog and the module lifecycle,
\* in a nominal environment (no call into the kernel fails, no signal).  A
\* read changes nothing but what the reading client is handed, so the reads
\* are those of the first NumReaders clients.
Next ==
    \/ coil_init(Nominal)
    \/ coil_exit
    \/ watchdog_fn
    \/ \E c \in Clients : dev_open(c)
    \/ \E c \in Clients : dev_write(c, Nominal)
    \/ \E c \in Readers : dev_read(c, Nominal)
    \/ \E c \in Clients : dev_release(c)

Spec == Init /\ [][Next]_vars

\* SpecFaults: one client, in an environment where registration, pin
\* requests, thread creation and user-buffer copies can fail and the
\* watchdog can be sent SIGKILL.
NextFaults ==
    \/ coil_init(Faulty)
    \/ coil_exit
    \/ watchdog_fn
    \/ SendSigkill
    \/ dev_open(1)
    \/ dev_write(1, Faulty)
    \/ dev_read(1, Faulty)
    \/ dev_release(1)

SpecFaults == Init /\ [][NextFaults]_vars

\* SpecStop: one client against the watchdog and the module lifecycle in a
\* nominal environment, with the scheduling the kernel gives the watchdog
\* kthread: it is runnable throughout (usleep_range and schedule() return,
\* jiffies advance past j1), so a step of watchdog_fn that stays possible is
\* eventually taken.  kthread_stop waits for the thread, so coil_exit's
\* join needs no fairness of its own.
NextStop ==
    \/ coil_init(Nominal)
    \/ coil_exit
    \/ watchdog_fn
    \/ dev_open(1)
    \/ dev_write(1, Nominal)
    \/ dev_read(1, Nominal)
    \/ dev_release(1)

SpecStop == Init /\ [][NextStop]_vars /\ WF_vars(watchdog_fn)

\* SpecFrame: temp_data as a function of the frame.  The module is loaded in
\* a nominal environment and idle, the watchdog stands at its call of
\* temp_data, and the sensor may latch any 16-bit frame; the steps are those
\* of one call of temp_data and the store of what it returns.
InitFrame ==
    /\ lpc = "loaded"
    /\ major = 1
    /\ registered = TRUE
    /\ status_reg = "ok"
    /\ gpio_own = [p \in Pins |-> "held"]
    /\ gpio_dir = [p \in Pins |-> IF p = DATA_PIN THEN "in" ELSE "out"]
    /\ gpio_val = [p \in Pins |-> IF p = CS_PIN THEN 1 ELSE 0]
    /\ heating = 0
    /\ temp = 0
    /\ wpc = "frame_cs"
    /\ should_stop = FALSE
    /\ sigkill = FALSE
    /\ sensor = 0
    /\ data = 0
    /\ i = 0
    /\ cpc = [c \in Clients |-> "closed"]
    /\ minor = [c \in Clients |-> TEMP_MINOR]
    /\ fault = [c \in Clients |-> FALSE]
    /\ buffer = [c \in Clients |-> <<>>]
    /\ ret = [c \in Clients |-> 0]
    /\ exit_heating = 0

NextFrame ==
    \/ FrameStartFrom(AllFrames)
    \/ FrameClkHigh
    \/ FrameSample
    \/ FrameClkLow
    \/ WdPublish

SpecFrame == InitFrame /\ [][NextFrame]_vars

(* ------------------------------ claims --------------------------------- *)

HEAT == gpio_val[HEAT_PIN]

\* client c holds a handle on the STATUS endpoint (its close has not returned)
HoldsStatus(c) == cpc[c] # "closed" /\ minor[c] = STATUS_MINOR

\* no context is inside turn_heating_coil_on or turn_heating_coil_off
ActuatorIdle ==
    /\ \A c \in Clients : cpc[c] \in {"closed", "idle"}
    /\ wpc \notin {"off_gpio", "off_store"}

\* the watchdog is between CS falling and CS rising in temp_data
FrameInProgress == wpc \in {"clk_high", "sample", "clk_low"}

\* C1 (as claimed): whenever heating is true, the published temp is at most
\* TEMP_LIMIT_2, or the watchdog has just published and is on its way through
\* the trip (the check, then turn_heating_coil_off) before its next sample.
C1_HardCeiling ==
    (lpc = "loaded" /\ heating = 1) =>
        \/ temp <= TEMP_LIMIT_2
        \/ wpc \in {"check", "off_gpio", "off_store"}

\* C2 (as claimed): the step that takes heating from 0 to 1 happens only in
\* a state whose published temp is at most TEMP_LIMIT.
C2_SoftGate ==
    [][(lpc = "loaded" /\ heating = 0 /\ heating' = 1) => temp <= TEMP_LIMIT]_vars

\* C3: when no STATUS handle is open (every close of one has returned),
\* heating is 0 and HEAT is low; a STATUS handle becomes closed only by the
\* last statement of turn_heating_coil_off, whatever the other handles are;
\* and the close of a TEMP handle changes neither heating nor any line.
C3_DeadMan ==
    /\ []((\A c \in Clients : ~HoldsStatus(c)) => (heating = 0 /\ HEAT = 0))
    /\ [][\A c \in Clients :
            /\ (HoldsStatus(c) /\ cpc'[c] = "closed") =>
                   (cpc[c] = "release_off_store" /\ heating' = 0)
            /\ (cpc[c] = "idle" /\ minor[c] = STATUS_MINOR
                  /\ cpc'[c] \notin {"idle", "on_guard", "write_off_gpio",
                                    "panic"}) =>
                   cpc'[c] = "release_off_gpio"
            /\ (cpc[c] # "closed" /\ minor[c] = TEMP_MINOR
                  /\ cpc'[c] = "closed") =>
                   (heating' = heating /\ gpio_val' = gpio_val)]_vars

\* two STATUS handles were opened, the coil is off and both have been closed
C3_Witness ==
    /\ \A c \in Clients : cpc[c] = "closed" /\ minor[c] = STATUS_MINOR
    /\ temp > 0
    /\ lpc = "loaded"

\* C4 (as claimed): when coil_exit was entered with heating true, heating is
\* 0 and HEAT is low once coil_exit has released the HEAT pin (looked at when
\* no file operation is in flight).
C4_UnloadMidHeat ==
    (/\ exit_heating = 1
     /\ gpio_own[HEAT_PIN] = "freed"
     /\ \A c \in Clients : cpc[c] \in {"closed", "idle"}) =>
        (heating = 0 /\ HEAT = 0)

\* C5 (as claimed): when no actuator operation is in progress, HEAT is not
\* high while heating is 0.
C5_AtomicPair ==
    (lpc = "loaded" /\ ActuatorIdle) => ~(HEAT = 1 /\ heating = 0)

\* C6 (as claimed): an engage request that finds temp above TEMP_LIMIT
\* completes with heating 0 and HEAT low, whatever heating was.
C6_EngageAboveSoft ==
    [][\A c \in Clients :
        (cpc[c] = "on_guard" /\ temp > TEMP_LIMIT /\ cpc'[c] = "idle") =>
            (heating' = 0 /\ HEAT' = 0)]_vars

\* C6 (amended): an engage request whose guard finds temp above TEMP_LIMIT
\* returns len without entering the rest of turn_heating_coil_on and changes
\* neither heating nor any line: heating and HEAT stay what they were.
C6_RefusalNoEffect ==
    [][\A c \in Clients :
        (cpc[c] = "on_guard" /\ temp > TEMP_LIMIT /\ cpc'[c] # cpc[c]) =>
            /\ cpc'[c] = "idle"
            /\ ret'[c] = WriteLen
            /\ heating' = heating
            /\ gpio_val' = gpio_val]_vars

\* an engage request stands at the guard above the soft ceiling, coil on
C6_Witness ==
    \E c \in Clients :
        cpc[c] = "on_guard" /\ temp > TEMP_LIMIT /\ heating = 1 /\ HEAT = 1

\* C7 (as claimed): an operation on STATUS whose user-buffer copy faulted
\* does not enter the actuator and returns -EFAULT.
C7_CopyFault ==
    \A c \in Clients :
        (lpc = "loaded" /\ fault[c] /\ minor[c] = STATUS_MINOR) =>
            (cpc[c] = "idle" /\ ret[c] = 0 - EFAULT)

\* C8 (as claimed): when a pin request has failed, init does not go on to
\* create or start the watchdog and the module does not load.
C8_PinFailure ==
    (\E p \in Pins : gpio_own[p] = "busy") =>
        (wpc = "none" /\ lpc # "loaded")

\* C9 (as claimed): when the registration of either endpoint has failed, no
\* pin is requested or configured and no watchdog is created.
C9_RegistrationFailure ==
    (major < 0 \/ status_reg = "busy") =>
        /\ \A p \in Pins : gpio_own[p] = "free" /\ gpio_dir[p] = "none"
        /\ wpc = "none"

\* C10: no sensor frame is in progress while CS, CLK or DATA has been
\* released, and a pin is released only after the endpoints are unregistered
\* and the watchdog has exited.
C10_Teardown ==
    /\ FrameInProgress =>
           \A p \in {CS_PIN, CLK_PIN, DATA_PIN} : gpio_own[p] # "freed"
    /\ (\E p \in Pins : gpio_own[p] = "freed") =>
           (~registered /\ wpc = "exited")

\* the module is unloaded after the watchdog published a sample
C10_Witness == lpc = "unloaded" /\ temp > 0 /\ should_stop

\* C11: once kthread_stop has set the stop flag, the watchdog thread exits
\* (under the scheduling of SpecStop); and with the flag set it never passes
\* the loop head into a new frame, so the only frame it can still start is
\* the one whose loop test it had passed before the flag was set.
C11_Termination ==
    /\ (should_stop ~> wpc = "exited")
    /\ [][(should_stop /\ wpc' = "frame_cs") => wpc = "frame_cs"]_vars

\* the stop flag was set while a frame was being clocked in: the thread still
\* has the rest of this frame, the check and the wait before it
C11_Witness == should_stop /\ wpc = "sample" /\ i = 3 /\ heating = 1

\* C12: for every 16-bit frame the sensor shifts out, the value temp_data
\* returns and the watchdog stores is the number whose 12 binary digits are
\* bits 14..3 of the frame, a value in 0..4095 that bit 15 and bits 2..0 do
\* not enter; frame 0001 0110 0100 0000 gives 712.  After i clocks data
\* holds the i most significant bits of the frame.
C12_FrameDecoding ==
    /\ [](wpc = "clk_high" => data = sensor \div (2 ^ (FRAME_BITS - i)))
    /\ [][(wpc = "publish" /\ wpc' = "check") =>
             LET b(k) == (sensor \div (2 ^ k)) % 2
             IN  /\ temp' = b(14) * 2048 + b(13) * 1024 + b(12) * 512
                            + b(11) * 256 + b(10) * 128 + b(9) * 64
                            + b(8) * 32 + b(7) * 16 + b(6) * 8
                            + b(5) * 4 + b(4) * 2 + b(3)
                 /\ temp' \in 0 .. 4095
                 /\ (sensor = 5696 => temp' = 712)]_vars

\* the frame 1001 0110 0100 0111 (712 ticks in bits 14..3, with bit 15 and
\* bits 2..0 set) has been clocked in and CS is high again
C12_Witness ==
    /\ wpc = "publish"
    /\ sensor = 38471
    /\ data = 38471
    /\ gpio_val[CS_PIN] = 1

\* C13 (as claimed): a client whose write to STATUS has returned, with no
\* context inside the actuator and heating and HEAT as that write left them
\* (both on after an accepted '1', both off after any other byte), reads
\* STATUS next: the read returns 2 and the bytes are the digit of heating
\* ("1" with HEAT high, "0" with HEAT low) and a newline.
C13_RoundTrip ==
    [][\A c \in Clients :
         (/\ lpc = "loaded"
          /\ ActuatorIdle
          /\ cpc[c] = "idle" /\ minor[c] = STATUS_MINOR
          /\ ret[c] = WriteLen /\ buffer[c] = <<>>
          /\ heating = HEAT
          /\ (heating = 1 => temp <= TEMP_LIMIT)
          /\ cpc'[c] \notin {"on_guard", "write_off_gpio", "release_off_gpio"}
          /\ (cpc'[c] # cpc[c] \/ buffer'[c] # buffer[c]))
         => (/\ cpc'[c] = "idle"
             /\ ret'[c] = 2
             /\ buffer'[c] = <<Digit(HEAT), "\n">>)]_vars

C15_FreshTemp ==
    [][/\ (wpc = "publish" /\ wpc' = "check") => temp' = Ticks(data)
       /\ temp' # temp => (wpc = "publish" /\ wpc' = "check")
       /\ \A c \in Clients :
            (/\ lpc = "loaded"
             /\ cpc[c] = "idle" /\ minor[c] = TEMP_MINOR
             /\ \/ cpc'[c] = "panic"
                \/ /\ cpc'[c] = "idle" /\ buffer'[c] # <<>>
                   /\ (buffer'[c] # buffer[c] \/ ret'[c] # ret[c]))
            => (/\ cpc'[c] = "idle"
                /\ ret'[c] = 5
                /\ Len(buffer'[c]) = 5
                /\ SubSeq(buffer'[c], 1, Len(Decimal(temp)) + 1)
                       = Decimal(temp) \o <<"\n">>)]_vars

\* C16 (as claimed): at its check the watchdog goes into
\* turn_heating_coil_off exactly when the temp it just stored is above
\* TEMP_LIMIT_2 and heating is true; when it leaves turn_heating_coil_off
\* for its wait, heating is 0 and HEAT is low; no other step of the watchdog
\* changes heating or HEAT, and none sets heating.
C16_WatchdogTrip ==
    [][/\ (wpc = "check" /\ wpc' # wpc) =>
              (wpc' = "off_gpio" <=> (temp > TEMP_LIMIT_2 /\ heating = 1))
       /\ (wpc = "off_store" /\ wpc' = "wait") => (heating' = 0 /\ HEAT' = 0)
       /\ (wpc' # wpc /\ wpc \notin {"off_gpio", "off_store"}) =>
              (heating' = heating /\ HEAT' = HEAT)
       /\ wpc' # wpc => ~(heating = 0 /\ heating' = 1)]_vars

\* C17: a call of temp_data drives CS low, then runs exactly FRAME_BITS
\* iterations of CLK high, one sample of DATA, CLK low, then drives CS high.
\* DATA is sampled only with CS low and CLK high, and a frame begins and ends
\* with CS high and CLK low; CS and CLK are driven by nothing else but
\* gpio_init's configuration.
C17_FrameSequence ==
    /\ [](LET CS == gpio_val[CS_PIN]
              CLK == gpio_val[CLK_PIN]
          IN  /\ wpc = "frame_cs" => (CS = 1 /\ CLK = 0)
              /\ wpc = "clk_high" => (CS = 0 /\ CLK = 0 /\ i \in 0 .. FRAME_BITS)
              /\ wpc = "sample" =>
                     (CS = 0 /\ CLK = 1 /\ i \in 0 .. FRAME_BITS - 1)
              /\ wpc = "clk_low" =>
                     (CS = 0 /\ CLK = 1 /\ i \in 0 .. FRAME_BITS - 1)
              /\ wpc = "publish" => (CS = 1 /\ CLK = 0 /\ i = FRAME_BITS))
    /\ [][/\ (wpc = "frame_cs" /\ wpc' # wpc) =>
                 (wpc' = "clk_high" /\ i' = 0 /\ data' = 0)
          /\ (wpc = "clk_high" /\ wpc' # wpc) =>
                 \/ i < FRAME_BITS /\ wpc' = "sample" /\ i' = i
                 \/ i = FRAME_BITS /\ wpc' = "publish" /\ i' = i
          /\ (wpc = "sample" /\ wpc' # wpc) => (wpc' = "clk_low" /\ i' = i)
          /\ (wpc = "clk_low" /\ wpc' # wpc) =>
                 (wpc' = "clk_high" /\ i' = i + 1 /\ data' = data)
          /\ (data' # data /\ wpc \notin {"frame_cs", "publish"}) =>
                 (wpc = "sample" /\ wpc' = "clk_low")
          /\ gpio_val'[CS_PIN] # gpio_val[CS_PIN] =>
                 (wpc \in {"frame_cs", "clk_high"} \/ lpc = "direction_CS")
          /\ gpio_val'[CLK_PIN] # gpio_val[CLK_PIN] =>
                 (wpc \in {"clk_high", "clk_low"} \/ lpc = "direction_CLK")]_vars

\* a frame has been clocked in completely after an earlier one was stored
C17_Witness ==
    /\ wpc = "publish"
    /\ i = FRAME_BITS
    /\ data = 17600
    /\ temp = 2700
    /\ gpio_val[CS_PIN] = 1 /\ gpio_val[CLK_PIN] = 0

\* C18 (as claimed): while the module is loaded and heating is true, or a
\* client holds an endpoint through which it can still engage the coil, a
\* watchdog thread is alive that will take a further sample.
C18_WatchdogCoverage ==
    (lpc = "loaded" /\ (heating = 1 \/ \E c \in Clients : HoldsStatus(c)))
        => wpc \notin {"none", "created", "err_ptr", "exited"}

\* C19 (as claimed): a step that drives HEAT, CS or CLK or samples DATA is
\* taken only while the pin is held by the module (requested by gpio_init,
\* not yet freed by gpio_exit) and configured in the direction it is used.
C19_PinsHeld ==
    [][/\ ((\/ \E c \in Clients :
                  /\ cpc[c] \in {"on_gpio", "write_off_gpio",
                                 "release_off_gpio"}
                  /\ cpc'[c] # cpc[c]
            \/ wpc = "off_gpio" /\ wpc' # wpc)
           => (gpio_own[HEAT_PIN] = "held" /\ gpio_dir[HEAT_PIN] = "out"))
       /\ ((wpc = "frame_cs" /\ wpc' # wpc)
           => (gpio_own[CS_PIN] = "held" /\ gpio_dir[CS_PIN] = "out"))
       /\ ((wpc = "clk_high" /\ wpc' # wpc)
           => \A p \in {CS_PIN, CLK_PIN} :
                  gpio_own[p] = "held" /\ gpio_dir[p] = "out")
       /\ ((wpc = "clk_low" /\ wpc' # wpc)
           => (gpio_own[CLK_PIN] = "held" /\ gpio_dir[CLK_PIN] = "out"))
       /\ ((wpc = "sample" /\ wpc' # wpc)
           => (gpio_own[DATA_PIN] = "held" /\ gpio_dir[DATA_PIN] = "in"))]_vars

============================================================================
